---- MODULE Spec2Model ----
(***************************************************************************)
(* PublishCallback (src/PublishCallback.h): an adapter that turns the      *)
(* asynchronous publish primitive spark_send_event into an object holding  *)
(* a completion callback and a "complete" flag.                            *)
(*                                                                         *)
(* Two execution contexts are modelled.  The application context (app)     *)
(* runs withCallback and publish_event; the context of the external        *)
(* primitive (sys) runs staticCallback for every accepted submit.  The     *)
(* example enables SYSTEM_THREAD (src/example.cpp:4), so the statements of *)
(* the two contexts interleave; neither "complete" nor "completion" is     *)
(* protected, so each reachable interleaving of their reads and writes is  *)
(* an outcome.                                                             *)
(*                                                                         *)
(* Spec is the adapter used through its documented interface.  CopySpec    *)
(* adds the compiler-supplied copy, ReentrantSpec a handler that publishes *)
(* again from inside the callback, and DriverSpec is the example program   *)
(* of src/example.cpp.  FairSpec and AppFairSpec add scheduling to Spec.   *)
(***************************************************************************)
EXTENDS Integers, Sequences, FiniteSets

\* ------------------------------------------------------------------ bounds
MaxInvokes == 2        \* publish_event calls issued in one behaviour
MaxTicks == 5          \* advances of the clock in one behaviour
TickMs == 30000        \* milliseconds the clock advances by in one step

\* --------------------------------------------------------------- constants
Error_NONE == 0        \* success
Error_TIMEOUT == -160  \* no ack within the primitive's deadline
Error_UNKNOWN == -100  \* generic error of the platform, used by the fallback
Error_OTHER == Error_TIMEOUT - 10  \* some other code, passed through

PUBLISH_INTERVAL_MS == 60000       \* example.cpp line 8
pubCallback == "a1"                \* example.cpp line 11: the shared adapter

ErrorCodes == {Error_NONE, Error_TIMEOUT, Error_UNKNOWN, Error_OTHER}

NULL == "NULL"
Payloads == {NULL, "ack-payload"}      \* const void *data of the callback
Handlers == {"h1", "h2"}               \* non-empty std::function values
Adapters == {"a1", "a2"}               \* PublishCallback instances

VARIABLES
    complete,    \* [Adapters -> BOOLEAN]          member complete
    completion,  \* [Adapters -> Handlers + NULL]  member completion
    eventData,   \* [Adapters -> record]           member eventData
    app,         \* application context: position inside publish_event
    sys,         \* primitive's context: position inside staticCallback
    pend,        \* accepted submits whose completion is not yet delivered
    invs,        \* history: one record per publish_event call
    call,        \* the completion handler call made by the last step
    overlap,     \* history: some publish was issued on a not-complete adapter
    drv          \* the example driver: clock, lastPublish, counter, position

vars == <<complete, completion, eventData, app, sys, pend, invs, call,
          overlap, drv>>

AppIdle == [pc |-> "idle", This |-> "a1", inv |-> 0, ok |-> FALSE]
SysIdle == [pc |-> "idle", error |-> Error_NONE, data |-> NULL,
            callbackData |-> "a1", h |-> NULL, inv |-> 0]
\* example.cpp lines 9 and 12: lastPublish = 0, counter = 0; the clock
\* millis() starts at 0 and the driver is outside loop()
DrvInit == [pc |-> "top", now |-> 0, lastPublish |-> 0, counter |-> 0]
NoCall == [inv |-> 0, This |-> "a1", via |-> "none", err |-> Error_NONE,
           data |-> NULL, handler |-> NULL]

\* initEventData() storing the address of one fixed instance
initEventData_fixed(a) ==
    [size |-> "sizeof(spark_send_event_data)",
     handler_callback |-> "staticCallback",
     handler_data |-> "a1"]

\* initEventData(): the registration record of instance a
initEventData(a) ==
    [size |-> "sizeof(spark_send_event_data)",
     handler_callback |-> "staticCallback",
     handler_data |-> a]

\* The two constructors: complete(false), completion empty or given
Init ==
    /\ complete = [a \in Adapters |-> FALSE]
    /\ completion \in [Adapters -> Handlers \cup {NULL}]
    /\ eventData = [a \in Adapters |-> initEventData(a)]
    /\ app = AppIdle
    /\ sys = SysIdle
    /\ pend = {}
    /\ invs = <<>>
    /\ call = NoCall
    /\ overlap = FALSE
    /\ drv = DrvInit

\* isComplete(): returns the flag
isComplete(a) == complete[a]

\* ----------------------------------------------------------------- history
InvIds == 1..Len(invs)
InvsOf(a) == {i \in InvIds : invs[i].This = a}
Calls(i) == invs[i].nsync + invs[i].nasync
\* invocation i has run its course: rejected and returned, or its
\* trampoline has run to the end
Finished(i) ==
    \/ invs[i].status = "rejected" /\ invs[i].returned
    \/ invs[i].status = "accepted" /\ invs[i].fired
\* the latest publish_event call on adapter a (0 when there is none)
LatestInv(a) == IF InvsOf(a) = {} THEN 0
                ELSE CHOOSE i \in InvsOf(a) : \A j \in InvsOf(a) : j <= i

\* the completion handler h of adapter a runs with (err, data); i is the
\* publish_event call it belongs to
HandlerCall(i, a, via, h, err, data) ==
    call' = [inv |-> i, This |-> a, via |-> via, err |-> err,
             data |-> data, handler |-> h]
\* the step calls no completion handler
NoHandlerCall == call' = NoCall

\* ------------------------------------------------------------- application
\* withCallback that also re-arms the instance
withCallback_rearm(a, h) ==
    /\ app.pc = "idle"
    /\ completion[a] # h
    /\ completion' = [completion EXCEPT ![a] = h]
    /\ complete' = [complete EXCEPT ![a] = FALSE]
    /\ invs' = [i \in InvIds |->
                  IF h = NULL /\ invs[i].This = a /\ ~Finished(i)
                  THEN [invs[i] EXCEPT !.hset = FALSE] ELSE invs[i]]
    /\ NoHandlerCall
    /\ UNCHANGED <<drv, eventData, app, sys, pend, overlap>>

\* withCallback(completion): replaces the handler slot
withCallback(a, h) ==
    /\ app.pc = "idle"
    /\ completion[a] # h
    /\ completion' = [completion EXCEPT ![a] = h]
    /\ invs' = [i \in InvIds |->
                  IF h = NULL /\ invs[i].This = a /\ ~Finished(i)
                  THEN [invs[i] EXCEPT !.hset = FALSE] ELSE invs[i]]
    /\ NoHandlerCall
    /\ UNCHANGED <<drv, complete, eventData, app, sys, pend, overlap>>

\* publish_event without the reset of line 114
publish_event_arm_noreset(a) ==
    /\ app.pc = "idle"
    /\ Len(invs) < MaxInvokes
    /\ invs' = Append(invs, [This |-> a, status |-> "armed",
                             returned |-> FALSE, fired |-> FALSE,
                             hset |-> completion[a] # NULL,
                             nsync |-> 0, nasync |-> 0, parent |-> 0])
    /\ overlap' = (overlap \/ (InvsOf(a) # {} /\ ~complete[a]))
    /\ app' = [pc |-> "armed", This |-> a, inv |-> Len(invs) + 1,
               ok |-> FALSE]
    /\ NoHandlerCall
    /\ UNCHANGED <<drv, complete, completion, eventData, sys, pend>>

\* publish_event, line 114: complete = false
publish_event_arm(a) ==
    /\ app.pc = "idle"
    /\ Len(invs) < MaxInvokes
    /\ complete' = [complete EXCEPT ![a] = FALSE]
    /\ invs' = Append(invs, [This |-> a, status |-> "armed",
                             returned |-> FALSE, fired |-> FALSE,
                             hset |-> completion[a] # NULL,
                             nsync |-> 0, nasync |-> 0, parent |-> 0])
    /\ overlap' = (overlap \/ (InvsOf(a) # {} /\ ~complete[a]))
    /\ app' = [pc |-> "armed", This |-> a, inv |-> Len(invs) + 1,
               ok |-> FALSE]
    /\ NoHandlerCall
    /\ UNCHANGED <<drv, completion, eventData, sys, pend>>

\* publish_event, line 116: the call of spark_send_event(..., this).  The
\* primitive reads the registration record at the address it is given (the
\* first member of *this) and accepts or rejects the request.
spark_send_event(ok) ==
    /\ app.pc = "armed"
    /\ app' = [app EXCEPT !.pc = "sent", !.ok = ok]
    /\ pend' = IF ok
               THEN pend \cup
                    {[inv |-> app.inv,
                      cb |-> eventData[app.This].handler_callback,
                      ctx |-> eventData[app.This].handler_data]}
               ELSE pend
    /\ invs' = [invs EXCEPT ![app.inv].status =
                              IF ok THEN "accepted" ELSE "rejected"]
    /\ NoHandlerCall
    /\ UNCHANGED <<drv, complete, completion, eventData, sys, overlap>>

\* the fallback of lines 116-121 with a chosen condition and error code
publish_event_check_with(cond, err) ==
    /\ app.pc = "sent"
    /\ IF cond /\ completion[app.This] # NULL
       THEN /\ HandlerCall(app.inv, app.This, "sync", completion[app.This],
                           err, NULL)
            /\ invs' = [invs EXCEPT ![app.inv].nsync = @ + 1]
       ELSE /\ NoHandlerCall
            /\ UNCHANGED invs
    /\ app' = [app EXCEPT !.pc = "ret"]
    /\ UNCHANGED <<drv, complete, completion, eventData, sys, pend, overlap>>
\* the fallback taken whatever spark_send_event returned
publish_event_check_always == publish_event_check_with(TRUE, Error_UNKNOWN)
\* the fallback taken on a true return instead of a false one
publish_event_check_inverted == publish_event_check_with(app.ok, Error_UNKNOWN)
\* the fallback reporting success
publish_event_check_none == publish_event_check_with(~app.ok, Error_NONE)

\* publish_event, lines 116-121: on a false return the completion, when
\* set, is called with (Error::UNKNOWN, NULL)
publish_event_check ==
    /\ app.pc = "sent"
    /\ IF ~app.ok /\ completion[app.This] # NULL
       THEN /\ HandlerCall(app.inv, app.This, "sync", completion[app.This],
                           Error_UNKNOWN, NULL)
            /\ invs' = [invs EXCEPT ![app.inv].nsync = @ + 1]
       ELSE /\ NoHandlerCall
            /\ UNCHANGED invs
    /\ app' = [app EXCEPT !.pc = "ret"]
    /\ UNCHANGED <<drv, complete, completion, eventData, sys, pend, overlap>>

\* publish_event waiting for the completion of an accepted submit before
\* it returns
publish_event_return_blocking ==
    /\ app.pc = "ret"
    /\ app.ok => invs[app.inv].fired
    /\ invs' = [invs EXCEPT ![app.inv].returned = TRUE]
    /\ app' = AppIdle
    /\ NoHandlerCall
    /\ UNCHANGED <<drv, complete, completion, eventData, sys, pend, overlap>>

\* publish_event, line 122: the function returns to its caller
publish_event_return ==
    /\ app.pc = "ret"
    /\ invs' = [invs EXCEPT ![app.inv].returned = TRUE]
    /\ app' = AppIdle
    /\ NoHandlerCall
    /\ UNCHANGED <<drv, complete, completion, eventData, sys, pend, overlap>>

\* ---------------------------------------------------- primitive's context
\* staticCallback calling the completion with the arguments of the fallback
staticCallback_call_fixedargs(p, error, data) ==
    /\ sys.pc = "idle"
    /\ p \in pend
    /\ pend' = pend \ {p}
    /\ sys' = [pc |-> "called", error |-> error, data |-> data,
               callbackData |-> p.ctx, h |-> completion[p.ctx],
               inv |-> p.inv]
    /\ IF completion[p.ctx] # NULL
       THEN /\ HandlerCall(p.inv, p.ctx, "async", completion[p.ctx],
                           Error_UNKNOWN, NULL)
            /\ invs' = [invs EXCEPT ![p.inv].nasync = @ + 1]
       ELSE /\ NoHandlerCall
            /\ UNCHANGED invs
    /\ UNCHANGED <<drv, complete, completion, eventData, app, overlap>>

\* staticCallback setting complete before it calls the completion
staticCallback_call_setfirst(p, error, data) ==
    /\ sys.pc = "idle"
    /\ p \in pend
    /\ pend' = pend \ {p}
    /\ sys' = [pc |-> "called", error |-> error, data |-> data,
               callbackData |-> p.ctx, h |-> completion[p.ctx],
               inv |-> p.inv]
    /\ complete' = [complete EXCEPT ![p.ctx] = TRUE]
    /\ IF completion[p.ctx] # NULL
       THEN /\ HandlerCall(p.inv, p.ctx, "async", completion[p.ctx],
                           error, data)
            /\ invs' = [invs EXCEPT ![p.inv].nasync = @ + 1]
       ELSE /\ NoHandlerCall
            /\ UNCHANGED invs
    /\ UNCHANGED <<drv, completion, eventData, app, overlap>>

\* staticCallback, lines 138-143: the primitive delivers the completion of
\* the accepted submit p as staticCallback(error, data, callbackData); the
\* completion of the instance callbackData points to, when set, is called
\* with (error, data)
staticCallback_call(p, error, data) ==
    /\ sys.pc = "idle"
    /\ p \in pend
    /\ pend' = pend \ {p}
    /\ sys' = [pc |-> "called", error |-> error, data |-> data,
               callbackData |-> p.ctx, h |-> completion[p.ctx],
               inv |-> p.inv]
    /\ IF completion[p.ctx] # NULL
       THEN /\ HandlerCall(p.inv, p.ctx, "async", completion[p.ctx],
                           error, data)
            /\ invs' = [invs EXCEPT ![p.inv].nasync = @ + 1]
       ELSE /\ NoHandlerCall
            /\ UNCHANGED invs
    /\ UNCHANGED <<drv, complete, completion, eventData, app, overlap>>

\* staticCallback with line 144 moved inside the if of line 141
staticCallback_set_inside_if ==
    /\ sys.pc = "called"
    /\ complete' = IF sys.h # NULL
                   THEN [complete EXCEPT ![sys.callbackData] = TRUE]
                   ELSE complete
    /\ invs' = [invs EXCEPT ![sys.inv].fired = TRUE]
    /\ sys' = SysIdle
    /\ NoHandlerCall
    /\ UNCHANGED <<drv, completion, eventData, app, pend, overlap>>

\* staticCallback, line 144: This->complete = true
staticCallback_set ==
    /\ sys.pc = "called"
    /\ complete' = [complete EXCEPT ![sys.callbackData] = TRUE]
    /\ invs' = [invs EXCEPT ![sys.inv].fired = TRUE]
    /\ sys' = SysIdle
    /\ NoHandlerCall
    /\ UNCHANGED <<drv, completion, eventData, app, pend, overlap>>

\* ----------------------------------------------------------- specification
Next ==
    \/ \E a \in Adapters, h \in Handlers \cup {NULL} : withCallback(a, h)
    \/ \E a \in Adapters : publish_event_arm(a)
    \/ \E ok \in BOOLEAN : spark_send_event(ok)
    \/ publish_event_check
    \/ publish_event_return
    \/ \E p \in pend, e \in ErrorCodes, d \in Payloads :
          staticCallback_call(p, e, d)
    \/ staticCallback_set

Spec == Init /\ [][Next]_vars

\* The class declares no copy constructor and no assignment operator, so
\* the compiler supplies the member-wise ones: an instance dst that is made
\* from, or assigned, another instance src receives copies of eventData,
\* complete and completion (lines 147-149).
PublishCallback_copy(dst, src) ==
    /\ app.pc = "idle"
    /\ dst # src
    /\ eventData' = [eventData EXCEPT ![dst] = eventData[src]]
    /\ complete' = [complete EXCEPT ![dst] = complete[src]]
    /\ completion' = [completion EXCEPT ![dst] = completion[src]]
    /\ invs' = [i \in InvIds |->
                  IF completion[src] = NULL /\ invs[i].This = dst
                     /\ ~Finished(i)
                  THEN [invs[i] EXCEPT !.hset = FALSE] ELSE invs[i]]
    /\ NoHandlerCall
    /\ UNCHANGED <<drv, app, sys, pend, overlap>>

\* a program that also copies and assigns instances
CopyNext ==
    \/ Next
    \/ \E dst \in Adapters, src \in Adapters : PublishCallback_copy(dst, src)

CopySpec == Init /\ [][CopyNext]_vars

\* staticCallback, lines 138-143, with a handler that publishes again on
\* the same instance before it returns.  The nested publish_event (lines
\* 112-122) runs to its end inside the handler: it resets complete, calls
\* spark_send_event, and on a false return calls the handler once more
\* through the fallback (that call does not publish again).
staticCallback_call_republish(p, error, data, ok) ==
    /\ sys.pc = "idle"
    /\ p \in pend
    /\ completion[p.ctx] # NULL
    /\ Len(invs) < MaxInvokes
    /\ sys' = [pc |-> "called", error |-> error, data |-> data,
               callbackData |-> p.ctx, h |-> completion[p.ctx],
               inv |-> p.inv]
    /\ HandlerCall(p.inv, p.ctx, "async", completion[p.ctx], error, data)
    /\ complete' = [complete EXCEPT ![p.ctx] = FALSE]
    /\ pend' = IF ok
               THEN (pend \ {p}) \cup
                    {[inv |-> Len(invs) + 1,
                      cb |-> eventData[p.ctx].handler_callback,
                      ctx |-> eventData[p.ctx].handler_data]}
               ELSE pend \ {p}
    /\ invs' = Append([invs EXCEPT ![p.inv].nasync = @ + 1],
                      [This |-> p.ctx,
                       status |-> IF ok THEN "accepted" ELSE "rejected",
                       returned |-> TRUE, fired |-> FALSE, hset |-> TRUE,
                       nsync |-> IF ok THEN 0 ELSE 1, nasync |-> 0,
                       parent |-> p.inv])
    /\ overlap' = (overlap \/ ~complete[p.ctx])
    /\ UNCHANGED <<drv, completion, eventData, app>>

\* a program whose handlers may publish again from inside the callback
ReentrantNext ==
    \/ Next
    \/ \E p \in pend, e \in ErrorCodes, d \in Payloads, ok \in BOOLEAN :
          staticCallback_call_republish(p, e, d, ok)

ReentrantSpec == Init /\ [][ReentrantNext]_vars

\* ------------------------------------------------------ the example driver
\* millis() - lastPublish.  Both are unsigned long; the clock of a
\* behaviour stays below MaxTicks * TickMs, far from the wrap at 2^32, and
\* lastPublish is always an earlier reading of it, so the unsigned
\* difference is the plain one.
Elapsed == drv.now - drv.lastPublish

\* time passes between two runs of loop(): a run of loop() takes less than
\* one step of the clock
tick ==
    /\ drv.pc = "top"
    /\ app.pc = "idle"
    /\ drv.now < MaxTicks * TickMs
    /\ drv' = [drv EXCEPT !.now = @ + TickMs]
    /\ NoHandlerCall
    /\ UNCHANGED <<complete, completion, eventData, app, sys, pend, invs,
                   overlap>>

\* loop(), lines 21-28: when the interval has elapsed lastPublish is set
\* to the clock, and when the device is connected the counter is
\* incremented and the payload formatted; the publish call follows
loop_check(connected) ==
    /\ drv.pc = "top"
    /\ app.pc = "idle"
    /\ Elapsed >= PUBLISH_INTERVAL_MS
    /\ connected => drv.counter < MaxInvokes
    /\ drv' = [drv EXCEPT !.lastPublish = drv.now,
                          !.counter = IF connected THEN @ + 1 ELSE @,
                          !.pc = IF connected THEN "publish" ELSE "top"]
    /\ NoHandlerCall
    /\ UNCHANGED <<complete, completion, eventData, app, sys, pend, invs,
                   overlap>>

\* loop(), line 29: pubCallback.publish(...), which enters publish_event
loop_publish ==
    /\ drv.pc = "publish"
    /\ Len(invs) < drv.counter
    /\ publish_event_arm(pubCallback)

\* loop(), lines 30-32: publish has returned and loop() returns
loop_return ==
    /\ drv.pc = "publish"
    /\ app.pc = "idle"
    /\ Len(invs) = drv.counter
    /\ drv' = [drv EXCEPT !.pc = "top"]
    /\ NoHandlerCall
    /\ UNCHANGED <<complete, completion, eventData, app, sys, pend, invs,
                   overlap>>

\* setup(), lines 14-18, has run: pubCallback has its handler
DriverInit ==
    /\ Init
    /\ completion = [a \in Adapters |->
                       IF a = pubCallback THEN "h1" ELSE NULL]

\* the example: only loop() publishes, on pubCallback
DriverNext ==
    \/ tick
    \/ \E connected \in BOOLEAN : loop_check(connected)
    \/ loop_publish
    \/ \E ok \in BOOLEAN : spark_send_event(ok)
    \/ publish_event_check
    \/ publish_event_return
    \/ loop_return
    \/ \E p \in pend, e \in ErrorCodes, d \in Payloads :
          staticCallback_call(p, e, d)
    \/ staticCallback_set

DriverSpec == DriverInit /\ [][DriverNext]_vars

\* The primitive delivers every accepted submit, and both contexts keep
\* running the function they are in; nothing forces the application to
\* issue another publish.
FairSpec ==
    /\ Spec
    /\ WF_vars(\E ok \in BOOLEAN : spark_send_event(ok))
    /\ WF_vars(publish_event_check)
    /\ WF_vars(publish_event_return)
    /\ WF_vars(\E p \in pend, e \in ErrorCodes, d \in Payloads :
                  staticCallback_call(p, e, d))
    /\ WF_vars(staticCallback_set)

\* Only the application context is scheduled: spark_send_event returns and
\* publish_event runs on; the completion may never be delivered.
AppFairSpec ==
    /\ Spec
    /\ WF_vars(\E ok \in BOOLEAN : spark_send_event(ok))
    /\ WF_vars(publish_event_check)
    /\ WF_vars(publish_event_return)

TypeOK ==
    /\ complete \in [Adapters -> BOOLEAN]
    /\ completion \in [Adapters -> Handlers \cup {NULL}]
    /\ app.pc \in {"idle", "armed", "sent", "ret"}
    /\ sys.pc \in {"idle", "called"}
    /\ Len(invs) <= MaxInvokes

\* ------------------------------------------------------------------ claims
\* an accepted submit of adapter a whose completion has not yet been
\* delivered to the end: the publish is outstanding
Outstanding(a) ==
    \E i \in InvsOf(a) : invs[i].status = "accepted" /\ ~invs[i].fired

\* C1: when every publish is issued only after the previous one on the
\* same adapter was seen complete, and a handler stays set, the handler is
\* never called twice for one publish, and it has been called exactly once
\* when the publish has run its course: by the fallback and not by the
\* trampoline after a rejected submit, by the trampoline and not by the
\* fallback after an accepted one.
C1_HandlerExactlyOnce ==
    ~overlap =>
      \A i \in InvIds :
        invs[i].hset =>
          /\ Calls(i) <= 1
          /\ Finished(i) => Calls(i) = 1
          /\ invs[i].status = "rejected" => invs[i].nasync = 0
          /\ invs[i].status = "accepted" => invs[i].nsync = 0

\* two publishes in sequence on one adapter, the first completed by the
\* trampoline, the second by the fallback, each with one handler call
C1_Witness ==
    /\ ~overlap
    /\ Len(invs) = 2
    /\ invs[1].This = invs[2].This
    /\ invs[1].hset /\ invs[2].hset
    /\ Finished(1) /\ Finished(2)
    /\ invs[1].nasync = 1 /\ invs[2].nsync = 1

\* C2: when spark_send_event returned false and a handler is set, then by
\* the time publish_event is about to return the handler has been called
\* once for this publish; and every call made by the fallback happens
\* inside publish_event, after a false return, with (Error::UNKNOWN, NULL).
C2_SyncFallback ==
    /\ (app.pc = "ret" /\ ~app.ok /\ completion[app.This] # NULL)
         => (invs[app.inv].nsync = 1 /\ ~invs[app.inv].returned)
    /\ call.via = "sync"
         => /\ app.pc = "ret" /\ ~app.ok
            /\ call.inv = app.inv /\ call.This = app.This
            /\ call.handler = completion[app.This]
            /\ call.handler # NULL
            /\ call.err = Error_UNKNOWN
            /\ call.data = NULL

\* the fallback has just called the handler and publish_event has not
\* returned yet
C2_Witness ==
    /\ call.via = "sync"
    /\ app.pc = "ret"
    /\ invs[app.inv].status = "rejected"

\* C3: once the handler has run for the latest publish of an adapter and
\* that publish has run its course (the trampoline ended, or publish_event
\* returned after the fallback), the adapter is complete.
C3_SettledAfterHandler ==
    ~overlap =>
      \A i \in InvIds :
        (i = LatestInv(invs[i].This) /\ Finished(i) /\ Calls(i) > 0)
          => complete[invs[i].This]

\* C4: whenever a publish has been started on an adapter, the adapter is
\* eventually complete.
C4_EventuallySettles ==
    \A a \in Adapters :
      [](app.pc = "armed" /\ app.This = a => <>complete[a])

\* C5 as stated: when spark_send_event returned true, the adapter is not
\* complete at the moment publish_event returns.
C5_OutstandingAtReturn ==
    [][(~overlap /\ app.pc = "ret" /\ app.ok /\ app'.pc = "idle")
         => ~complete'[app.This]]_vars

\* C5 as amended: with non-overlapping publishes, an adapter whose submit
\* was accepted is not complete for as long as the trampoline of that
\* publish has not run to its end.
C5_OutstandingUntilTrampoline ==
    ~overlap =>
      \A i \in InvIds :
        (invs[i].status = "accepted" /\ ~invs[i].fired)
          => ~complete[invs[i].This]

\* a second publish on an adapter was accepted and has returned, its
\* trampoline has not run, and the adapter reports not complete
C5_Witness ==
    /\ ~overlap
    /\ Len(invs) = 2
    /\ invs[1].This = invs[2].This
    /\ invs[1].fired
    /\ invs[2].status = "accepted" /\ invs[2].returned /\ ~invs[2].fired
    /\ ~complete[invs[2].This]

\* C6 as stated: the trampoline calls the handler of a publish only after
\* publish_event has returned.
C6_HandlerAfterReturn ==
    call.via = "async" => invs[call.inv].returned

\* C6 as amended: for an accepted submit, publish_event itself never calls
\* the handler; the handler is called at most once, by the trampoline of
\* that publish, and has been called exactly once when that trampoline has
\* ended with a handler set.
C6_NoSyncCallWhenAccepted ==
    /\ \A i \in InvIds :
         invs[i].status = "accepted" =>
           /\ invs[i].nsync = 0
           /\ invs[i].nasync <= 1
           /\ (invs[i].fired /\ invs[i].hset) => invs[i].nasync = 1
    /\ (call.via = "sync" => invs[call.inv].status = "rejected")
    /\ (call.via = "async" =>
          /\ invs[call.inv].status = "accepted"
          /\ sys.pc = "called" /\ sys.inv = call.inv)

\* publish_event has returned after an accepted submit without a handler
\* call, and the trampoline has then called the handler
C6_Witness ==
    /\ call.via = "async"
    /\ invs[call.inv].returned
    /\ invs[call.inv].nsync = 0
    /\ invs[call.inv].nasync = 1

\* C7: with non-overlapping publishes, a new publish resets complete to
\* false, and every handler call belongs to the latest publish of its
\* adapter; a call made by the trampoline is one of the trampoline that
\* delivers that latest publish.
C7_Rearm ==
    ~overlap =>
      /\ app.pc = "armed" => ~complete[app.This]
      /\ call.via # "none" => call.inv = LatestInv(call.This)
      /\ call.via = "async" => sys.inv = LatestInv(call.This)

\* the handler is being called for the second publish of an adapter whose
\* first publish had completed and set the adapter complete; the second
\* publish has reset it
C7_Witness ==
    /\ ~overlap
    /\ call.via # "none"
    /\ call.inv = 2
    /\ invs[1].This = invs[2].This
    /\ invs[1].fired /\ Calls(1) = 1
    /\ ~complete[call.This]

\* C8: isComplete() is true exactly when a publish of the adapter is
\* outstanding (issued, ack or timeout not yet received).
C8_IsCompleteIffOutstanding ==
    \A a \in Adapters : isComplete(a) <=> Outstanding(a)

\* C9: the handler called by the trampoline is the one set on the adapter
\* the callback data points to, and it receives the error code and the
\* data pointer that were passed to the trampoline.
C9_PassThrough ==
    call.via = "async" =>
      /\ sys.pc = "called"
      /\ call.This = sys.callbackData
      /\ call.handler = sys.h
      /\ call.err = sys.error
      /\ call.data = sys.data

\* the handler receives a code that is neither success, timeout nor the
\* generic one, with a non-null payload
C9_Witness ==
    /\ call.via = "async"
    /\ call.err = Error_OTHER
    /\ call.data # NULL
    /\ sys.error = Error_OTHER

\* C10: when the trampoline finds no handler set it calls none, and the
\* step that ends the trampoline still sets the adapter complete.
C10_NoHandlerStillSettles ==
    [][/\ (sys.pc = "idle" /\ sys'.pc = "called" /\ sys'.h = NULL)
            => (call'.via = "none" /\ invs' = invs)
       /\ (sys.pc = "called" /\ sys.h = NULL /\ sys'.pc = "idle")
            => (complete'[sys.callbackData] /\ call'.via = "none"
                /\ invs'[sys.inv].nasync = 0)]_vars

\* an accepted publish whose trampoline ran without a handler: no handler
\* call was made and the adapter is complete
C10_Witness ==
    /\ sys.pc = "idle"
    /\ \E i \in InvIds :
         /\ invs[i].status = "accepted" /\ invs[i].fired
         /\ ~invs[i].hset /\ Calls(i) = 0
         /\ completion[invs[i].This] = NULL
         /\ complete[invs[i].This]

\* C11: every publish_event call returns once spark_send_event has
\* returned, whether or not the completion of the submit is ever
\* delivered: the application context, while scheduled, always gets from
\* inside publish_event back to its caller.
C11_InvokeReturns ==
    (app.pc # "idle") ~> (app.pc = "idle")

\* publish_event has returned after an accepted submit whose trampoline
\* has not fired
C11_Witness ==
    /\ app.pc = "idle"
    /\ \E i \in InvIds :
         /\ invs[i].status = "accepted" /\ invs[i].returned
         /\ ~invs[i].fired
         /\ \E p \in pend : p.inv = i

\* C12: the trampoline of a publish carries the instance that issued the
\* publish; the step that calls the handler calls the handler of that
\* instance only and changes no flag, and the step that ends the
\* trampoline sets the flag of that instance and of no other.
C12_OnlyContextAdapter ==
    [][/\ (sys.pc = "idle" /\ sys'.pc = "called")
            => /\ sys'.callbackData = invs[sys'.inv].This
               /\ complete' = complete
               /\ completion' = completion
               /\ call'.via # "none"
                    => /\ call'.This = sys'.callbackData
                       /\ call'.handler = completion[sys'.callbackData]
       /\ (sys.pc = "called" /\ sys'.pc = "idle")
            => /\ complete'[sys.callbackData]
               /\ \A b \in Adapters \ {sys.callbackData} :
                    complete'[b] = complete[b]
               /\ completion' = completion
               /\ call'.via = "none"]_vars

\* both instances had an accepted publish pending; the completion of the
\* later one arrived first and set only the flag of its own instance
C12_Witness ==
    /\ Len(invs) = 2
    /\ invs[1].This # invs[2].This
    /\ invs[1].status = "accepted" /\ invs[2].status = "accepted"
    /\ invs[2].fired /\ ~invs[1].fired
    /\ invs[1].returned
    /\ \E p \in pend : p.inv = 1
    /\ complete[invs[2].This] /\ ~complete[invs[1].This]

\* C13: the step of the trampoline that calls the handler leaves every
\* flag as it is; a flag turns true only by the step that ends a
\* trampoline, for the instance of that trampoline; and with
\* non-overlapping publishes the instance is not complete while its
\* trampoline is between the handler call and its end.
C13_SetAfterHandler ==
    [][/\ (sys.pc = "idle" /\ sys'.pc = "called") => complete' = complete
       /\ \A a \in Adapters :
            (~complete[a] /\ complete'[a])
              => (sys.pc = "called" /\ sys'.pc = "idle"
                  /\ a = sys.callbackData)
       /\ (~overlap' /\ sys'.pc = "called")
            => ~complete'[sys'.callbackData]]_vars

\* the handler has been called by the trampoline, the trampoline has not
\* ended and the instance still reports not complete
C13_Witness ==
    /\ ~overlap
    /\ call.via = "async"
    /\ sys.pc = "called"
    /\ ~complete[sys.callbackData]
    /\ invs[sys.inv].nasync = 1 /\ ~invs[sys.inv].fired

\* C14: the registration record of every instance names staticCallback
\* and points back to that same instance.
C14_BackPointerSelf ==
    \A a \in Adapters :
      /\ eventData[a].handler_callback = "staticCallback"
      /\ eventData[a].handler_data = a

\* C15: a step that changes a handler slot calls no handler and leaves
\* the flags, the registration records, the pending submits and the count
\* of handler calls of every publish as they were; and the handler the
\* trampoline calls is the one in the slot at that moment.
C15_WithCallbackFrame ==
    [][/\ completion' # completion
            => /\ call'.via = "none"
               /\ complete' = complete
               /\ eventData' = eventData
               /\ pend' = pend /\ sys' = sys /\ app' = app
               /\ \A i \in InvIds :
                    /\ invs'[i].nsync = invs[i].nsync
                    /\ invs'[i].nasync = invs[i].nasync
       /\ call'.via = "async"
            => /\ call'.handler = completion'[call'.This]
               /\ call'.handler # NULL]_vars

\* the trampoline calls a handler that was installed after the publish
\* was issued (no handler was set at the publish, or it was removed
\* afterwards) and before the trampoline fired
C15_Witness ==
    /\ call.via = "async"
    /\ ~invs[call.inv].hset
    /\ call.handler = "h2"
    /\ completion[call.This] = "h2"
    /\ invs[call.inv].nasync = 1

\* C16: with non-overlapping publishes, an instance that reports complete
\* has no accepted submit waiting for its completion and no trampoline
\* running on it: no later callback can reach it.
C16_CompleteMeansNoPending ==
    ~overlap =>
      \A a \in Adapters :
        complete[a] =>
          /\ \A p \in pend : p.ctx # a /\ invs[p.inv].This # a
          /\ ~(sys.pc = "called" /\ sys.callbackData = a)

\* an instance has completed a publish and reports complete with nothing
\* pending on it, while the other instance still waits for a completion
C16_Witness ==
    /\ ~overlap
    /\ \E a \in Adapters :
         /\ complete[a]
         /\ \E i \in InvsOf(a) : invs[i].fired
         /\ \A p \in pend : p.ctx # a
         /\ \E p \in pend : p.ctx # a

\* no completion is on its way to instance a: nothing but a new publish
\* can change its flag
Quiescent(a) ==
    /\ app.pc = "idle"
    /\ \A p \in pend : p.ctx # a
    /\ ~(sys.pc = "called" /\ sys.callbackData = a)

\* C17: a caller that waits for the instance to report complete before it
\* publishes is never left waiting for ever: whenever the caller is
\* outside publish_event and no completion is on its way to the instance,
\* the instance reports complete.
C17_NeverBlocked ==
    \A a \in Adapters : Quiescent(a) => complete[a]

\* C18: a publish that the handler issued from inside the trampoline on
\* the same instance, and that was accepted, keeps the instance not
\* complete until its own trampoline has fired.  (Stated for an instance
\* whose only other publish is the one whose handler issued it.)
C18_ReentrantStaysOutstanding ==
    \A i \in InvIds :
      (/\ invs[i].parent # 0
       /\ invs[i].status = "accepted"
       /\ ~invs[i].fired
       /\ InvsOf(invs[i].This) = {invs[i].parent, i})
        => ~complete[invs[i].This]

\* C19: when loop() enters publish on the shared adapter, no earlier
\* accepted publish of that adapter is still waiting for its completion
\* to be delivered.
C19_DriverNoOverlap ==
    app.pc = "armed" =>
      \A p \in pend : invs[p.inv].This # app.This
====
